---------------------------- MODULE Spec2Model ----------------------------
(***************************************************************************)
(* The offline asset-caching service worker of the portfolio               *)
(* (src/unnamed/part_000): install / activate lifecycle, fetch routing,    *)
(* the cache-first and network-first handlers and the control messages.    *)
(*                                                                         *)
(* Every `await` of an async function is a point where another handler of  *)
(* the worker may run, so each handler is a small process: a record in     *)
(* `inflight` with its position `pc`.  The network and the content served  *)
(* by the site are the environment.                                        *)
(***************************************************************************)
EXTENDS Integers, Sequences, FiniteSets, TLC

(***************************************************************************)
(* Bounds of the model.                                                    *)
(***************************************************************************)
\* functional events (fetch, message) delivered after a cold start (Spec)
MaxEvents == 1
\* events of the clear-cache scenario (SpecClear)
MaxClearEvents == 3
\* handlers that may be suspended at an await at the same time
MaxInFlight == 2
\* control messages of the message scenario (SpecMessages)
MaxMessageEvents == 2
\* events of the retry-sweep scenario (SpecSync)
MaxSyncEvents == 2
\* events of the asset scenario (SpecAssets)
MaxAssetEvents == 2
\* requests of the cross-origin scenario (SpecCrossOrigin)
MaxCrossOriginEvents == 2
\* events of the scenario with every kind of functional event (SpecStores)
MaxStoreEvents == 1
\* events of the status scenario (SpecStatus)
MaxStatusEvents == 2
\* events of the offline-document scenario (SpecOffline)
MaxOfflineEvents == 4
\* content versions the site publishes (a deploy changes the bodies served)
MaxVer == 2

(***************************************************************************)
(* URLs.  A URL is kept in parsed form so that the string tests of the     *)
(* source (startsWith, endsWith, includes, the extension regex) are        *)
(* computed from its parts: origin, directory segments, file name          *)
(* (stem, ext: "" for a path ending in "/") and query string.              *)
(***************************************************************************)
Url(origin, dir, stem, ext, query) ==
    [origin |-> origin, dir |-> dir, stem |-> stem, ext |-> ext, query |-> query]

RootUrl      == Url("self", << >>, "", "", "")                 \* /
IndexUrl     == Url("self", << >>, "index", "html", "")        \* /index.html
RootQueryUrl == Url("self", << >>, "", "", "v=1")              \* /?v=1
AboutUrl     == Url("self", << >>, "about", "", "")            \* /about
AboutDirUrl  == Url("self", <<"about">>, "", "", "")           \* /about/
PdfUrl       == Url("self", <<"assets">>, "miguelComonfortResumePortfolio", "pdf", "")

ImageUrl     == Url("self", <<"assets">>, "constructionCalcSS", "png", "")
                                                             \* /assets/constructionCalcSS.png
\* a stylesheet the page loads from another origin: https://other/css/font.css
CrossOriginUrl == Url("other", <<"css">>, "font", "css", "")
\* an image of another origin under a path /assets/: https://other/assets/logo.png
CrossOriginImageUrl == Url("other", <<"assets">>, "logo", "png", "")

\* a script chunk of the build, which the page loads and the list of critical
\* assets does not name: /assets/Dither-Bz_HA_WA.js
ChunkUrl == Url("self", <<"assets">>, "Dither-Bz_HA_WA", "js", "")

CACHE_NAME       == "mported-portfolio-v1"
ASSET_CACHE_NAME == "mported-assets-v1"

\* The list of the source, abridged: '/', '/index.html', the first of its
\* seven images (all under /assets/, all with an image extension) and the PDF.
CRITICAL_ASSETS == <<RootUrl, IndexUrl, ImageUrl, PdfUrl>>

CriticalIdx == 1..Len(CRITICAL_ASSETS)

\* stores a previous deploy of the site may have left behind
OldCacheNames == {"mported-portfolio-v0", "mported-assets-v0"}
CacheNameUniverse == {CACHE_NAME, ASSET_CACHE_NAME} \cup OldCacheNames

UrlUniverse ==
    {CRITICAL_ASSETS[i] : i \in CriticalIdx}
        \cup {RootQueryUrl, AboutUrl, AboutDirUrl, CrossOriginUrl, CrossOriginImageUrl,
              ChunkUrl}

\* url.pathname.startsWith('/assets/')
PathStartsWithAssets(u) == Len(u.dir) >= 1 /\ u.dir[1] = "assets"

\* the /i flag of the extension regex
LowerCase(s) ==
    CASE s = "PNG" -> "png" [] s = "JPG" -> "jpg" [] s = "JPEG" -> "jpeg"
      [] s = "GIF" -> "gif" [] s = "WEBP" -> "webp" [] OTHER -> s

\* request.url.match(/\.(jpg|jpeg|png|gif|webp)$/i): the URL string ends with
\* the extension, so a query string after the file name defeats the match
MatchesImageExtension(u) ==
    /\ u.query = ""
    /\ LowerCase(u.ext) \in {"jpg", "jpeg", "png", "gif", "webp"}

\* request.url.endsWith('/')
UrlEndsWithSlash(u) == u.query = "" /\ u.stem = "" /\ u.ext = ""

\* request.url.includes('index.html')
UrlIncludesIndexHtml(u) ==
    \/ (u.stem = "index" /\ u.ext = "html")
    \/ \E i \in 1..Len(u.dir) : u.dir[i] = "index.html"

\* the test guarding the synthetic offline page
OfflinePageCondition(u) == UrlEndsWithSlash(u) \/ UrlIncludesIndexHtml(u)

(***************************************************************************)
(* Requests and responses.                                                 *)
(***************************************************************************)
Request(method, u) == [method |-> method, url |-> u]
NoRequest == Request("none", RootUrl)

\* the requests the pages issue to the site itself
FetchRequests ==
    {Request("GET", u) : u \in {v \in UrlUniverse \ {ChunkUrl} : v.origin = "self"}}
        \cup {Request("POST", ImageUrl), Request("POST", AboutUrl)}

\* the requests the pages issue to other origins
CrossOriginRequests ==
    {Request("GET", u) : u \in {v \in UrlUniverse : v.origin # "self"}}

NetResponse(ok, ver) == [kind |-> "network", ok |-> ok, ver |-> ver]
NoResponse         == [kind |-> "none", ok |-> FALSE, ver |-> 0]
\* new Response('<svg ...>Image Unavailable</svg>', ...): status 200
ImagePlaceholder   == [kind |-> "placeholder", ok |-> TRUE, ver |-> 0]
\* new Response(`<!DOCTYPE html> ... You're Offline ...`, ...): status 200
OfflinePage        == [kind |-> "offline", ok |-> TRUE, ver |-> 0]

EmptyStore == [u \in UrlUniverse |-> NoResponse]

VARIABLES
    netVer,       \* version of the content the site serves now
    cacheNames,   \* CacheStorage: the names of the stores, in creation order
    cacheData,    \* CacheStorage: name -> (url -> stored response)
    pendingPuts,  \* cache.put calls issued and not awaited, not yet written
    swState,      \* installing | installed | activating | activated | redundant
    install,      \* progress of the promise given to the install event's waitUntil
    activate,     \* progress of the promise given to the activate event's waitUntil
    inflight,     \* the handlers suspended at an await
    eventsLeft,   \* functional events the environment still delivers
    last,         \* outcome of the handler that completed last
    pristine,     \* no handler has written cache storage since the install
    cleared,      \* a CLEAR_CACHE has completed and no /assets/ request came since
    sinceClear,   \* a CLEAR_CACHE has completed, undisturbed, and cache storage
                  \* has not been written since
    lastPut,      \* the cache.put of a fetch handler that wrote last
    loader        \* the page: the static fields of AssetLoader and its loads

workerVars == <<netVer, cacheNames, cacheData, pendingPuts, swState, install, activate,
                inflight, eventsLeft, last, pristine, cleared, sinceClear, lastPut>>

vars == <<netVer, cacheNames, cacheData, pendingPuts, swState, install, activate,
          inflight, eventsLeft, last, pristine, cleared, sinceClear, lastPut, loader>>

(***************************************************************************)
(* AssetLoader, the asset utility of the page.                             *)
(***************************************************************************)
\* The entries of ASSETS, abridged: the first screenshot and the PDF.  Each
\* has a public URL and a bundled URL.
AssetConfigs == {"constructionCalcSS", "resumePDF"}

Public(c)  == [config |-> c, from |-> "public"]
Bundled(c) == [config |-> c, from |-> "bundled"]
FALLBACK_IMAGE == [config |-> "none", from |-> "fallback"]
NoAssetUrl     == [config |-> "none", from |-> "none"]

\* no load of the configuration is under way
NoLoad == [pc |-> "idle", url |-> NoAssetUrl]

\* the static fields when the class is initialised: cache = new Map(),
\* failedAssets = new Set(), isOnline = navigator.onLine, offlineMode = false;
\* backOnline records that an 'online' event has come and no 'offline' since,
\* failedSince that a load of a public URL has failed since that event
LoaderStart(onLine) ==
    [isOnline |-> onLine, offlineMode |-> FALSE, failedAssets |-> {},
     cache |-> [c \in AssetConfigs |-> NoAssetUrl],
     loads |-> [c \in AssetConfigs |-> NoLoad],
     backOnline |-> FALSE, failedSince |-> FALSE]

\* getAssetUrl(assetConfig) for an object configuration
GetAssetUrl(l, c) ==
    IF l.offlineMode \/ Public(c) \in l.failedAssets THEN Bundled(c) ELSE Public(c)

\* window 'online' listener
LoaderOnline ==
    /\ ~loader.isOnline
    /\ loader' = [loader EXCEPT !.isOnline = TRUE, !.offlineMode = FALSE,
                                !.backOnline = TRUE, !.failedSince = FALSE]
    /\ UNCHANGED workerVars

\* window 'offline' listener
LoaderOffline ==
    /\ loader.isOnline
    /\ loader' = [loader EXCEPT !.isOnline = FALSE, !.offlineMode = TRUE,
                                !.backOnline = FALSE, !.failedSince = FALSE]
    /\ UNCHANGED workerVars

\* preloadAsset(assetConfig) up to its first await: a cache miss, then the
\* load of the URL getAssetUrl chooses
PreloadAsset(c) ==
    /\ loader.cache[c] = NoAssetUrl /\ loader.loads[c] = NoLoad
    /\ loader' = [loader EXCEPT !.loads[c] = [pc |-> "primary",
                                              url |-> GetAssetUrl(loader, c)]]
    /\ UNCHANGED workerVars

\* loadAssetWithTimeout(primaryUrl, 5000) settles: the URL is cached, or the
\* public URL is marked failed and the bundled URL is loaded
PreloadPrimary(c, ok) ==
    /\ loader.loads[c].pc = "primary"
    /\ loader' = IF ok
                   THEN [loader EXCEPT !.cache[c] = loader.loads[c].url,
                                       !.loads[c] = NoLoad]
                   ELSE [loader EXCEPT !.failedAssets = @ \cup {Public(c)},
                                       !.failedSince = loader.backOnline,
                                       !.loads[c] = [pc |-> "bundled", url |-> Bundled(c)]]
    /\ UNCHANGED workerVars

\* loadAssetWithTimeout(assetConfig.bundled, 3000) settles
PreloadBundled(c, ok) ==
    /\ loader.loads[c].pc = "bundled"
    /\ loader' = [loader EXCEPT !.cache[c] = IF ok THEN Bundled(c) ELSE FALLBACK_IMAGE,
                                !.loads[c] = NoLoad]
    /\ UNCHANGED workerVars

\* retryLoading of the useAssets hook: AssetLoader.cache.clear()
RetryLoading ==
    /\ \E c \in AssetConfigs : loader.cache[c] # NoAssetUrl
    /\ loader' = [loader EXCEPT !.cache = [c \in AssetConfigs |-> NoAssetUrl]]
    /\ UNCHANGED workerVars

(***************************************************************************)
(* CacheStorage and Cache, as the worker uses them.                        *)
(***************************************************************************)
SeqToSet(s) == {s[i] : i \in 1..Len(s)}

CacheExists(names, n) == n \in SeqToSet(names)

\* caches.open(name): creates the store when there is none of that name
CachesOpen(names, n) == IF CacheExists(names, n) THEN names ELSE Append(names, n)

\* caches.delete(name) for every name of S
CachesDeleteNames(names, S) == SelectSeq(names, LAMBDA n : n \notin S)
CachesDeleteData(data, S) ==
    [n \in CacheNameUniverse |-> IF n \in S THEN EmptyStore ELSE data[n]]

\* cache.match(request) on one store: only GET requests match
CacheMatch(data, n, req) ==
    IF req.method = "GET" /\ req.url \in UrlUniverse THEN data[n][req.url] ELSE NoResponse

\* caches.match(request): the first store, in creation order, that holds it
RECURSIVE CachesMatchFrom(_, _, _, _)
CachesMatchFrom(names, data, req, i) ==
    IF i > Len(names) THEN NoResponse
    ELSE IF CacheMatch(data, names[i], req) # NoResponse
         THEN CacheMatch(data, names[i], req)
         ELSE CachesMatchFrom(names, data, req, i + 1)

CachesMatch(names, data, req) == CachesMatchFrom(names, data, req, 1)

\* (await cache.keys()).length
CacheKeys(data, n) == {u \in UrlUniverse : data[n][u] # NoResponse}

\* the keys of every store
AllKeys(data) == [n \in CacheNameUniverse |-> CacheKeys(data, n)]

\* cache storage as an observer sees it: the store names and the keys of each
StorageView(names, data) == [names |-> SeqToSet(names), keys |-> AllKeys(data)]

\* the outcomes of fetch(): a response with an ok status, a response with an
\* error status, or a rejection (network failure)
FetchOutcomes == {"ok", "notok", "throw"}


(***************************************************************************)
(* Initial state: the worker script has been parsed and its install event  *)
(* is about to run.  Cache storage holds whatever stores an older deploy   *)
(* left (their content is older than anything the site serves now).        *)
(***************************************************************************)
OldContent ==
    [n \in CacheNameUniverse |->
        IF n = "mported-portfolio-v0"
          THEN [EmptyStore EXCEPT ![RootUrl] = NetResponse(TRUE, 0)]
        ELSE IF n = "mported-assets-v0"
          THEN [EmptyStore EXCEPT ![ImageUrl] = NetResponse(TRUE, 0)]
        ELSE EmptyStore]

InitialCacheNames ==
    { << >>, <<"mported-portfolio-v0">>, <<"mported-assets-v0">>,
      <<"mported-portfolio-v0", "mported-assets-v0">> }

\* nothing posted on any MessagePort
NoMessages == << >>

\* no put has written yet
NoPut == [cache |-> "none", url |-> RootUrl, resp |-> NoResponse]

\* the bookkeeping of a retry sweep: the entry the loop is at, the fetches made
\* for each entry and the outcome of the last one
NoSweep ==
    [i |-> 0, attempts |-> [j \in CriticalIdx |-> 0],
     results |-> [j \in CriticalIdx |-> "none"]]

\* the record of an earlier run of the install seeding: none yet
NoFirstInstall ==
    [shell |-> "pending", assets |-> [i \in CriticalIdx |-> "pending"],
     keys |-> AllKeys([n \in CacheNameUniverse |-> EmptyStore])]

NoOutcome ==
    [id |-> 0, kind |-> "none", req |-> NoRequest, result |-> "none", resp |-> NoResponse,
     src |-> "none", net |-> "none", served |-> NoResponse, atMatch |-> NoResponse,
     quiet |-> FALSE, cold |-> FALSE, after |-> FALSE, names |-> {},
     total |-> 0, cached |-> 0, fresh |-> FALSE,
     posted |-> NoMessages, sweep |-> NoSweep,
     issued |-> FALSE, stored |-> FALSE, wrote |-> FALSE, freshest |-> NoResponse,
     before |-> StorageView(<< >>, [n \in CacheNameUniverse |-> EmptyStore]),
     keys |-> AllKeys([n \in CacheNameUniverse |-> EmptyStore])]

Init ==
    /\ netVer = 1
    /\ cacheNames \in InitialCacheNames
    /\ cacheData = [n \in CacheNameUniverse |->
                      IF CacheExists(cacheNames, n) THEN OldContent[n] ELSE EmptyStore]
    /\ pendingPuts = {}
    /\ swState = "installing"
    /\ install = [pc |-> "start", shell |-> "pending",
                  assets |-> [i \in CriticalIdx |-> "pending"],
                  settled |-> "pending", skipWaiting |-> FALSE, keys |-> {},
                  round |-> 1, first |-> NoFirstInstall]
    /\ activate = [pc |-> "idle", snapshot |-> << >>, claimed |-> FALSE, names |-> {},
                   before |-> StorageView(<< >>, [n \in CacheNameUniverse |-> EmptyStore])]
    /\ inflight = {}
    /\ eventsLeft = MaxEvents
    /\ last = NoOutcome
    /\ pristine = TRUE
    /\ cleared = FALSE
    /\ sinceClear = FALSE
    /\ lastPut = NoPut
    /\ loader = LoaderStart(TRUE)

\* a fetch may still be made: an event is still to come, or a handler in
\* flight has not made its last fetch
FetchAhead ==
    \/ eventsLeft > 0
    \/ \E h \in inflight :
          \/ h.kind \in {"asset", "app"} /\ h.pc \in {"match", "fetch"}
          \/ h.kind \in {"cacheAsset", "sync"}

\* the site is redeployed: later fetches get newer bodies (a deploy after the
\* last fetch changes nothing the worker sees)
Publish ==
    /\ swState = "activated"
    /\ netVer < MaxVer
    /\ FetchAhead
    /\ netVer' = netVer + 1
    /\ UNCHANGED <<loader, lastPut, cacheNames, cacheData, pendingPuts, swState, install,
                   activate, inflight, eventsLeft, last, pristine, cleared, sinceClear>>

(***************************************************************************)
(* install: Promise.all([shell seeding, asset seeding]).then(skipWaiting)  *)
(***************************************************************************)
\* caches.open(CACHE_NAME) and caches.open(ASSET_CACHE_NAME), issued in this order
InstallOpen ==
    /\ swState = "installing" /\ install.pc = "start"
    /\ cacheNames' = CachesOpen(CachesOpen(cacheNames, CACHE_NAME), ASSET_CACHE_NAME)
    /\ install' = [install EXCEPT !.pc = "seeding"]
    /\ UNCHANGED <<netVer, loader, lastPut, cacheData, pendingPuts, swState, activate, inflight,
                   eventsLeft, last, pristine, cleared, sinceClear>>

\* cache.addAll(['/']) on the shell store: rejects unless the response is ok
ShellAddAll(outcome) ==
    /\ install.pc = "seeding" /\ install.shell = "pending"
    /\ IF outcome = "ok"
         THEN /\ cacheData' = [cacheData EXCEPT ![CACHE_NAME][RootUrl] =
                                  NetResponse(TRUE, netVer)]
              /\ install' = [install EXCEPT !.shell = "ok"]
         ELSE /\ install' = [install EXCEPT !.shell = "failed"]
              /\ UNCHANGED cacheData
    /\ UNCHANGED <<netVer, loader, lastPut, cacheNames, pendingPuts, swState, activate, inflight,
                   eventsLeft, last, pristine, cleared, sinceClear>>

\* what one cache.add(asset).catch(...) of the asset seeding leaves behind
AssetAddResult(outcome) == IF outcome = "ok" THEN "ok" ELSE "failed"

\* cache.add(asset).catch(warn) for entry i of CRITICAL_ASSETS; the adds run
\* concurrently and go on after a rejection of the shell seeding
AssetAdd(i, outcome) ==
    /\ install.pc = "seeding" /\ install.assets[i] = "pending"
    /\ install' = [install EXCEPT !.assets[i] = AssetAddResult(outcome)]
    /\ IF AssetAddResult(outcome) = "ok"
         THEN cacheData' = [cacheData EXCEPT ![ASSET_CACHE_NAME][CRITICAL_ASSETS[i]] =
                               NetResponse(TRUE, netVer)]
         ELSE UNCHANGED cacheData
    /\ UNCHANGED <<netVer, loader, lastPut, cacheNames, pendingPuts, swState, activate, inflight,
                   eventsLeft, last, pristine, cleared, sinceClear>>

\* Promise.allSettled over the caught adds: settles when none is pending,
\* whatever their results
AssetSeedingSettled(assets) == \A i \in CriticalIdx : assets[i] # "pending"

\* an install that signals skipWaiting as soon as the shell is seeded
InstallResolveEarly ==
    /\ swState = "installing" /\ install.settled = "pending"
    /\ install.shell = "ok"
    /\ install' = [install EXCEPT !.settled = "resolved", !.skipWaiting = TRUE,
                                  !.keys = CacheKeys(cacheData, ASSET_CACHE_NAME)]
    /\ swState' = "installed"
    /\ UNCHANGED <<netVer, loader, lastPut, cacheNames, cacheData, pendingPuts, activate, inflight,
                   eventsLeft, last, pristine, cleared, sinceClear>>

\* an install whose shell seeding is caught like the asset adds: it resolves
\* once every fetch has settled, whatever the result for '/'
InstallResolveShellCaught ==
    /\ swState = "installing" /\ install.settled = "pending"
    /\ install.shell # "pending" /\ AssetSeedingSettled(install.assets)
    /\ install' = [install EXCEPT !.settled = "resolved", !.skipWaiting = TRUE,
                                  !.keys = CacheKeys(cacheData, ASSET_CACHE_NAME)]
    /\ swState' = "installed"
    /\ UNCHANGED <<netVer, loader, lastPut, cacheNames, cacheData, pendingPuts, activate, inflight,
                   eventsLeft, last, pristine, cleared, sinceClear>>

\* Promise.all(...).then(() => self.skipWaiting()): both seedings fulfilled
InstallResolve ==
    /\ swState = "installing" /\ install.settled = "pending"
    /\ install.shell = "ok" /\ AssetSeedingSettled(install.assets)
    /\ install' = [install EXCEPT !.settled = "resolved", !.skipWaiting = TRUE,
                                  !.keys = CacheKeys(cacheData, ASSET_CACHE_NAME)]
    /\ swState' = "installed"
    /\ UNCHANGED <<netVer, loader, lastPut, cacheNames, cacheData, pendingPuts, activate, inflight,
                   eventsLeft, last, pristine, cleared, sinceClear>>

\* the install as it would be with the asset adds not caught: Promise.all
\* rejects on the first failed add as well
InstallRejectFailFast ==
    /\ swState = "installing" /\ install.settled = "pending"
    /\ (install.shell = "failed" \/ \E i \in CriticalIdx : install.assets[i] = "failed")
    /\ install' = [install EXCEPT !.settled = "rejected",
                                  !.keys = CacheKeys(cacheData, ASSET_CACHE_NAME)]
    /\ swState' = "redundant"
    /\ UNCHANGED <<netVer, loader, lastPut, cacheNames, cacheData, pendingPuts, activate, inflight,
                   eventsLeft, last, pristine, cleared, sinceClear>>

\* Promise.all rejects as soon as the shell seeding rejects: the install fails
InstallReject ==
    /\ swState = "installing" /\ install.settled = "pending"
    /\ install.shell = "failed"
    /\ install' = [install EXCEPT !.settled = "rejected",
                                  !.keys = CacheKeys(cacheData, ASSET_CACHE_NAME)]
    /\ swState' = "redundant"
    /\ UNCHANGED <<netVer, loader, lastPut, cacheNames, cacheData, pendingPuts, activate, inflight,
                   eventsLeft, last, pristine, cleared, sinceClear>>

(***************************************************************************)
(* The install event dispatched a second time (the same script registered  *)
(* anew), on a network where each URL always succeeds or always fails.     *)
(***************************************************************************)
\* the install event runs again once the first seeding is over; what the
\* first run fetched and cached is remembered
Reinstall ==
    /\ install.round = 1
    /\ install.settled # "pending" /\ AssetSeedingSettled(install.assets)
    /\ install' = [pc |-> "start", shell |-> "pending",
                   assets |-> [i \in CriticalIdx |-> "pending"],
                   settled |-> "pending", skipWaiting |-> FALSE, keys |-> {},
                   round |-> 2,
                   first |-> [shell |-> install.shell, assets |-> install.assets,
                              keys |-> AllKeys(cacheData)]]
    /\ swState' = "installing"
    /\ UNCHANGED <<netVer, loader, lastPut, cacheNames, cacheData, pendingPuts, activate, inflight,
                   eventsLeft, last, pristine, cleared, sinceClear>>

\* the results the fetches of u have had so far, in this run and the first
FetchResultsSeen(u) ==
    (IF u = RootUrl THEN {install.shell, install.first.shell} ELSE {})
        \cup {install.assets[i] : i \in {j \in CriticalIdx : CRITICAL_ASSETS[j] = u}}
        \cup {install.first.assets[i] : i \in {j \in CriticalIdx : CRITICAL_ASSETS[j] = u}}

\* a network that answers the same URL differently from one fetch to the next
AnyOutcomes(u) == FetchOutcomes

\* the outcomes a fetch of u can have on the deterministic network
DeterministicOutcomes(u) ==
    IF "ok" \in FetchResultsSeen(u) THEN {"ok"}
    ELSE IF "failed" \in FetchResultsSeen(u) THEN {"notok", "throw"}
    ELSE FetchOutcomes

(***************************************************************************)
(* activate: delete the stores of other versions, then claim the clients.  *)
(***************************************************************************)
\* the test with its second conjunct forgotten
ActivateDeletesAllButShell(n) == n # CACHE_NAME

\* cacheName !== CACHE_NAME && cacheName !== ASSET_CACHE_NAME
ActivateDeletes(n) == n # CACHE_NAME /\ n # ASSET_CACHE_NAME

\* caches.keys()
ActivateKeys ==
    /\ swState = "installed" /\ install.skipWaiting
    /\ swState' = "activating"
    /\ activate' = [activate EXCEPT !.pc = "keys", !.snapshot = cacheNames,
                                    !.before = StorageView(cacheNames, cacheData)]
    /\ UNCHANGED <<netVer, loader, lastPut, cacheNames, cacheData, pendingPuts, install, inflight,
                   eventsLeft, last, pristine, cleared, sinceClear>>

\* Promise.all(cacheNames.map(... caches.delete(cacheName)))
ActivateDelete ==
    /\ swState = "activating" /\ activate.pc = "keys"
    /\ LET doomed == {n \in SeqToSet(activate.snapshot) : ActivateDeletes(n)} IN
         /\ cacheNames' = CachesDeleteNames(cacheNames, doomed)
         /\ cacheData' = CachesDeleteData(cacheData, doomed)
    /\ activate' = [activate EXCEPT !.pc = "deleted"]
    /\ UNCHANGED <<netVer, loader, lastPut, pendingPuts, swState, install, inflight, eventsLeft, last,
                   pristine, cleared, sinceClear>>

\* a worker that claims the clients as soon as it has listed the stores,
\* without waiting for the deletions
ActivateClaimEarly ==
    /\ swState = "activating" /\ activate.pc = "keys"
    /\ activate' = [activate EXCEPT !.pc = "done", !.claimed = TRUE, !.snapshot = << >>,
                                    !.names = SeqToSet(cacheNames),
                                    !.before = StorageView(<< >>, [n \in CacheNameUniverse |-> EmptyStore])]
    /\ swState' = "activated"
    /\ UNCHANGED <<netVer, loader, lastPut, cacheNames, cacheData, pendingPuts, install, inflight,
                   eventsLeft, last, pristine, cleared, sinceClear>>

\* .then(() => self.clients.claim()): the worker now controls the open pages
ActivateClaim ==
    /\ swState = "activating" /\ activate.pc = "deleted"
    /\ activate' = [activate EXCEPT !.pc = "done", !.claimed = TRUE, !.snapshot = << >>,
                                    !.names = SeqToSet(cacheNames),
                                    !.before = StorageView(<< >>, [n \in CacheNameUniverse |-> EmptyStore])]
    /\ swState' = "activated"
    /\ UNCHANGED <<netVer, loader, lastPut, cacheNames, cacheData, pendingPuts, install, inflight,
                   eventsLeft, last, pristine, cleared, sinceClear>>


(***************************************************************************)
(* Functional events.  They reach the worker once it is activated: fetch   *)
(* events wait for the activation, and the pages post their messages to    *)
(* navigator.serviceWorker.controller, which clients.claim() sets.         *)
(***************************************************************************)
lifecycle == <<swState, install, activate>>

NewHandler(kind, req, pc) ==
    [id |-> eventsLeft, kind |-> kind, req |-> req, pc |-> pc,
     resp |-> NoResponse, net |-> "none", atMatch |-> NoResponse,
     quiet |-> (inflight = {}), cold |-> FALSE, after |-> FALSE, snapshot |-> << >>,
     detached |-> FALSE, held |-> {}, sweep |-> NoSweep,
     before |-> StorageView(cacheNames, cacheData)]

\* a new handler starts while the others are suspended
Start(h) ==
    /\ swState = "activated"
    /\ eventsLeft > 0
    /\ Cardinality(inflight) < MaxInFlight
    /\ inflight' = {[g EXCEPT !.quiet = FALSE] : g \in inflight} \cup {h}
    /\ eventsLeft' = eventsLeft - 1

\* what is known of a handler when its promise settles; `keys` are the keys of
\* the stores as the settling step found them
Outcome(h, result, resp, src, names) ==
    [id |-> h.id, kind |-> h.kind, req |-> h.req, result |-> result, resp |-> resp,
     src |-> src,
     net |-> h.net, served |-> h.resp, atMatch |-> h.atMatch, quiet |-> h.quiet,
     cold |-> h.cold, after |-> h.after, names |-> names,
     total |-> 0, cached |-> 0, fresh |-> FALSE,
     posted |-> NoMessages, sweep |-> h.sweep,
     issued |-> FALSE, stored |-> FALSE, wrote |-> FALSE, freshest |-> NoResponse,
     before |-> h.before,
     keys |-> AllKeys(cacheData)]

\* the handler's promise settles
Complete(h, outcome) ==
    /\ inflight' = inflight \ {h}
    /\ last' = outcome

Step(h, g) == inflight' = (inflight \ {h}) \cup {g}

\* a listener that tests the method first and treats every GET as a page
\* request
FetchRouteMethodFirst(req) ==
    IF req.method = "GET" THEN "app"
    ELSE IF PathStartsWithAssets(req.url) THEN "asset"
    ELSE "none"

\* the routing of the fetch listener: which handler event.respondWith is given
FetchRoute(req) ==
    IF PathStartsWithAssets(req.url) THEN "asset"
    ELSE IF req.method = "GET" THEN "app"
    ELSE "none"

\* self.addEventListener('fetch', ...)
FetchEvent(req) ==
    /\ FetchRoute(req) # "none"
    /\ IF FetchRoute(req) = "asset"
         THEN /\ Start([NewHandler("asset", req, "match") EXCEPT !.after = cleared])
              /\ cleared' = FALSE
         ELSE /\ Start(NewHandler("app", req, "fetch"))
              /\ UNCHANGED cleared
    /\ UNCHANGED <<netVer, loader, lastPut, cacheNames, cacheData, pendingPuts, lifecycle, last,
                   pristine, sinceClear>>

\* the listener returns without calling respondWith: the browser handles the request
FetchPassThrough(req) ==
    /\ FetchRoute(req) = "none"
    /\ swState = "activated"
    /\ eventsLeft > 0
    /\ eventsLeft' = eventsLeft - 1
    /\ last' = [NoOutcome EXCEPT !.kind = "passthrough", !.req = req,
                                 !.result = "default"]
    /\ UNCHANGED <<netVer, loader, lastPut, cacheNames, cacheData, pendingPuts, lifecycle, inflight,
                   pristine, cleared, sinceClear>>

\* a put that leaves an entry that is already there
PutEntryKeepsFirst(data, p) ==
    IF data[p.cache][p.url] # NoResponse THEN data[p.cache][p.url] ELSE p.resp

\* the entry a put leaves under its key: its own response, replacing any other
PutEntry(data, p) == p.resp

\* a cache.put issued earlier writes its entry (the store it was opened on
\* still exists, or the put would have been dropped with it)
PutCommit(p) ==
    /\ p \in pendingPuts
    /\ pendingPuts' = pendingPuts \ {p}
    /\ cacheData' = [cacheData EXCEPT ![p.cache][p.url] = PutEntry(cacheData, p)]
    /\ pristine' = FALSE
    /\ sinceClear' = FALSE
    /\ lastPut' = p
    /\ UNCHANGED <<netVer, loader, cacheNames, lifecycle, inflight, eventsLeft, last, cleared>>

\* a handler that returns the response without writing it
IssuePutNever(puts, cache, req, resp) == puts

\* cache.put(request, response): rejects for a request that is not a GET
IssuePut(puts, cache, req, resp) ==
    IF req.method = "GET" /\ req.url \in UrlUniverse
      THEN puts \cup {[cache |-> cache, url |-> req.url, resp |-> resp]}
      ELSE puts

\* the put of handler h's response into the store is among the puts issued
PutIssued(puts, cache, h) ==
    /\ IssuePut({}, cache, h.req, h.resp) # {}
    /\ IssuePut({}, cache, h.req, h.resp) \subseteq puts

(***************************************************************************)
(* handleAssetRequest: cache first, network fallback.                      *)
(***************************************************************************)
\* a handler that goes to the network without looking at the stores
AssetLookupSkipsCache(names, data, req) == NoResponse

\* const cachedResponse = await caches.match(request)
AssetLookup(names, data, req) == CachesMatch(names, data, req)

AssetMatch(h) ==
    /\ h \in inflight /\ h.kind = "asset" /\ h.pc = "match"
    /\ LET c == AssetLookup(cacheNames, cacheData, h.req)
           g == [h EXCEPT !.atMatch = CacheMatch(cacheData, ASSET_CACHE_NAME, h.req),
                          !.cold = sinceClear]
       IN IF c # NoResponse
            THEN Complete(h, Outcome(g, "response", c, "cache", SeqToSet(cacheNames)))
            ELSE /\ Step(h, [g EXCEPT !.pc = "fetch"])
                 /\ UNCHANGED last
    /\ UNCHANGED <<netVer, loader, lastPut, cacheNames, cacheData, pendingPuts, lifecycle, eventsLeft,
                   pristine, cleared, sinceClear>>

\* a catch block that rethrows for every URL
AssetFailureAlwaysThrows(req) ==
    [result |-> "throw", resp |-> NoResponse, src |-> "none"]

\* the catch block: a placeholder for image URLs, the error for the others
AssetFailure(req) ==
    IF MatchesImageExtension(req.url)
      THEN [result |-> "response", resp |-> ImagePlaceholder, src |-> "synthetic"]
      ELSE [result |-> "throw", resp |-> NoResponse, src |-> "none"]

\* a catch block that also stores the response it builds
CatchPutsStoresFallback(puts, req, failure) ==
    IF failure.result = "response"
      THEN IssuePut(puts, ASSET_CACHE_NAME, req, failure.resp)
      ELSE puts

\* the puts issued by the catch block: none, the placeholder is only returned
CatchPuts(puts, req, failure) == puts

\* const networkResponse = await fetch(request)
AssetFetch(h, outcome) ==
    /\ h \in inflight /\ h.kind = "asset" /\ h.pc = "fetch"
    /\ UNCHANGED cacheData
    /\ pendingPuts' = IF outcome = "throw"
                        THEN CatchPuts(pendingPuts, h.req, AssetFailure(h.req))
                        ELSE pendingPuts
    /\ LET g == [h EXCEPT !.net = outcome] IN
         CASE outcome = "ok" ->
                /\ Step(h, [g EXCEPT !.pc = "put", !.resp = NetResponse(TRUE, netVer)])
                /\ UNCHANGED last
           [] outcome = "notok" ->
                Complete(h, [Outcome([g EXCEPT !.resp = NetResponse(FALSE, netVer)],
                                     "response", NetResponse(FALSE, netVer),
                                     "network", SeqToSet(cacheNames))
                                EXCEPT !.wrote = (pendingPuts' # pendingPuts
                                                    \/ cacheData' # cacheData)])
           [] OTHER ->
                Complete(h, Outcome(g, AssetFailure(h.req).result, AssetFailure(h.req).resp,
                                    AssetFailure(h.req).src, SeqToSet(cacheNames)))
    /\ UNCHANGED <<netVer, loader, lastPut, cacheNames, lifecycle, eventsLeft,
                   pristine, cleared, sinceClear>>

\* const cache = await caches.open(ASSET_CACHE_NAME); cache.put(request, clone);
\* return networkResponse -- the put is not awaited
AssetPut(h) ==
    /\ h \in inflight /\ h.kind = "asset" /\ h.pc = "put"
    /\ cacheNames' = CachesOpen(cacheNames, ASSET_CACHE_NAME)
    /\ pendingPuts' = IssuePut(pendingPuts, ASSET_CACHE_NAME, h.req, h.resp)
    /\ sinceClear' = (sinceClear /\ cacheNames' = cacheNames)
    /\ Complete(h, [Outcome(h, "response", h.resp, "network", SeqToSet(cacheNames'))
                       EXCEPT !.issued = PutIssued(pendingPuts', ASSET_CACHE_NAME, h),
                              !.stored = (CacheMatch(cacheData, ASSET_CACHE_NAME, h.req)
                                            = h.resp)])
    /\ UNCHANGED <<netVer, loader, lastPut, cacheData, lifecycle, eventsLeft, pristine, cleared>>

(***************************************************************************)
(* handleAppRequest: network first, cache fallback.                        *)
(***************************************************************************)
\* a handler that answers from the stores when they hold the request
AppNetworkResultPrefersCache(h) == IF h.atMatch # NoResponse THEN h.atMatch ELSE h.resp

\* return networkResponse: the response of the fetch, whatever the stores hold
AppNetworkResult(h) == h.resp

\* const networkResponse = await fetch(request)
AppFetch(h, outcome) ==
    /\ h \in inflight /\ h.kind = "app" /\ h.pc = "fetch"
    /\ LET g == [h EXCEPT !.net = outcome,
                          !.atMatch = CachesMatch(cacheNames, cacheData, h.req)] IN
         CASE outcome = "ok" ->
                /\ Step(h, [g EXCEPT !.pc = "put", !.resp = NetResponse(TRUE, netVer)])
                /\ UNCHANGED last
           [] outcome = "notok" ->
                Complete(h, Outcome([g EXCEPT !.resp = NetResponse(FALSE, netVer)],
                                    "response",
                                    AppNetworkResult([g EXCEPT !.resp = NetResponse(FALSE, netVer)]),
                                    "network", SeqToSet(cacheNames)))
           [] OTHER ->
                /\ Step(h, [g EXCEPT !.pc = "fallback"])
                /\ UNCHANGED last
    /\ UNCHANGED <<netVer, loader, lastPut, cacheNames, cacheData, pendingPuts, lifecycle, eventsLeft,
                   pristine, cleared, sinceClear>>

\* const cache = await caches.open(CACHE_NAME); cache.put(request, clone);
\* return networkResponse
AppPut(h) ==
    /\ h \in inflight /\ h.kind = "app" /\ h.pc = "put"
    /\ cacheNames' = CachesOpen(cacheNames, CACHE_NAME)
    /\ pendingPuts' = IssuePut(pendingPuts, CACHE_NAME, h.req, h.resp)
    /\ sinceClear' = (sinceClear /\ cacheNames' = cacheNames)
    /\ Complete(h, Outcome(h, "response", AppNetworkResult(h), "network",
                           SeqToSet(cacheNames')))
    /\ UNCHANGED <<netVer, loader, lastPut, cacheData, lifecycle, eventsLeft, pristine, cleared>>

\* the catch block: caches.match(request), then the synthetic offline page
\* when the URL ends with '/' or includes 'index.html', else the error
AppFailure(req, cached) ==
    IF cached # NoResponse
      THEN [result |-> "response", resp |-> cached, src |-> "cache"]
    ELSE IF OfflinePageCondition(req.url)
      THEN [result |-> "response", resp |-> OfflinePage, src |-> "synthetic"]
    ELSE [result |-> "throw", resp |-> NoResponse, src |-> "none"]

\* the response the latest committed put of handleAppRequest stored for the
\* request, if the shell store holds it
FreshestStored(data, put, req) ==
    IF /\ put.cache = CACHE_NAME /\ put.url = req.url
       /\ CacheMatch(data, CACHE_NAME, req) = put.resp
      THEN put.resp
      ELSE NoResponse

AppFallback(h) ==
    /\ h \in inflight /\ h.kind = "app" /\ h.pc = "fallback"
    /\ LET c == CachesMatch(cacheNames, cacheData, h.req)
           g == [h EXCEPT !.atMatch = c]
           f == AppFailure(h.req, c)
       IN Complete(h, [Outcome(g, f.result, f.resp, f.src, SeqToSet(cacheNames))
                          EXCEPT !.freshest = FreshestStored(cacheData, lastPut, h.req)])
    /\ UNCHANGED <<netVer, loader, lastPut, cacheNames, cacheData, pendingPuts, lifecycle, eventsLeft,
                   pristine, cleared, sinceClear>>


(***************************************************************************)
(* The message listener and the three control operations.                  *)
(***************************************************************************)
MessageTypes == {"CACHE_ASSET", "CLEAR_CACHE", "GET_CACHE_STATUS"}

\* the URLs the pages ask the worker to cache
CacheAssetUrls == {PdfUrl, RootUrl}

\* switch (type): the handler started for a message
MessageEvent(type, u) ==
    /\ type \in MessageTypes
    /\ CASE type = "CACHE_ASSET" ->
              /\ u \in CacheAssetUrls
              /\ Start(NewHandler("cacheAsset", Request("GET", u), "open"))
         [] type = "CLEAR_CACHE" ->
              /\ u = RootUrl
              /\ Start(NewHandler("clearCache", NoRequest, "keys"))
         [] OTHER ->
              /\ u = RootUrl
              /\ Start(NewHandler("getCacheStatus", NoRequest, "open"))
    /\ UNCHANGED <<netVer, loader, lastPut, cacheNames, cacheData, pendingPuts, lifecycle, last,
                   pristine, cleared, sinceClear>>

\* a handler holding a Cache object of a store that is deleted keeps the
\* object, cut off from cache storage, with the keys it had
Detach(g, deleted) ==
    IF g.kind \in {"getCacheStatus", "cacheAsset"} /\ g.pc \in {"keys", "add"}
         /\ ~g.detached /\ ASSET_CACHE_NAME \in deleted
      THEN [g EXCEPT !.detached = TRUE, !.held = CacheKeys(cacheData, ASSET_CACHE_NAME)]
      ELSE g

\* clearCache: const cacheNames = await caches.keys()
ClearKeys(h) ==
    /\ h \in inflight /\ h.kind = "clearCache" /\ h.pc = "keys"
    /\ Step(h, [h EXCEPT !.pc = "delete", !.snapshot = cacheNames])
    /\ UNCHANGED <<netVer, loader, lastPut, cacheNames, cacheData, pendingPuts, lifecycle, eventsLeft,
                   last, pristine, cleared, sinceClear>>

\* a clearCache that spares the stores of the current version
ClearDeletesOldOnly(snapshot) == {n \in SeqToSet(snapshot) : ActivateDeletes(n)}

\* the names clearCache deletes, of those caches.keys() returned
ClearDeletes(snapshot) == SeqToSet(snapshot)

\* clearCache: await Promise.all(cacheNames.map(name => caches.delete(name)))
ClearDelete(h) ==
    /\ h \in inflight /\ h.kind = "clearCache" /\ h.pc = "delete"
    /\ LET doomed == ClearDeletes(h.snapshot) IN
         /\ cacheNames' = CachesDeleteNames(cacheNames, doomed)
         /\ cacheData' = CachesDeleteData(cacheData, doomed)
         /\ pendingPuts' = {p \in pendingPuts : p.cache \notin doomed}
         /\ inflight' = {Detach(g, doomed) : g \in inflight \ {h}}
         /\ last' = [Outcome(h, "resolved", NoResponse, "none",
                             SeqToSet(CachesDeleteNames(cacheNames, doomed)))
                        EXCEPT !.keys = AllKeys(CachesDeleteData(cacheData, doomed))]
    /\ pristine' = FALSE
    /\ cleared' = TRUE
    /\ sinceClear' = h.quiet
    /\ UNCHANGED <<netVer, loader, lastPut, lifecycle, eventsLeft>>

\* getCacheStatus: const assetCache = await caches.open(ASSET_CACHE_NAME)
StatusOpen(h) ==
    /\ h \in inflight /\ h.kind = "getCacheStatus" /\ h.pc = "open"
    /\ cacheNames' = CachesOpen(cacheNames, ASSET_CACHE_NAME)
    /\ sinceClear' = (sinceClear /\ cacheNames' = cacheNames)
    /\ Step(h, [h EXCEPT !.pc = "keys"])
    /\ UNCHANGED <<netVer, loader, lastPut, cacheData, pendingPuts, lifecycle, eventsLeft, last, pristine,
                   cleared>>

\* a status that reports the length of the list as the number cached
CacheStatusCountsList(keys) ==
    [totalAssets |-> Len(CRITICAL_ASSETS), cachedAssets |-> Len(CRITICAL_ASSETS)]

\* the CacheStatus built from the keys of the asset store
CacheStatus(keys) ==
    [totalAssets |-> Len(CRITICAL_ASSETS), cachedAssets |-> Cardinality(keys)]

\* a reply posted on the port of the message and once more on that of the
\* message before it
StatusReplyTwice(id) ==
    << [type |-> "CACHE_STATUS", port |-> id], [type |-> "CACHE_STATUS", port |-> id + 1] >>

\* event.ports[0].postMessage({ type: 'CACHE_STATUS', payload: status }): the
\* messages the handler of message `id` posts, each on the port named
StatusReply(id) == << [type |-> "CACHE_STATUS", port |-> id] >>

\* getCacheStatus: const cachedAssets = await assetCache.keys(); the status is
\* posted on event.ports[0]
StatusKeys(h) ==
    /\ h \in inflight /\ h.kind = "getCacheStatus" /\ h.pc = "keys"
    /\ LET keys == IF h.detached THEN h.held ELSE CacheKeys(cacheData, ASSET_CACHE_NAME)
           st == CacheStatus(keys)
       IN Complete(h, [Outcome(h, "reply", NoResponse, "none", SeqToSet(cacheNames))
                          EXCEPT !.total = st.totalAssets, !.cached = st.cachedAssets,
                                 !.fresh = pristine, !.posted = StatusReply(h.id)])
    /\ UNCHANGED <<netVer, loader, lastPut, cacheNames, cacheData, pendingPuts, lifecycle, eventsLeft,
                   pristine, cleared, sinceClear>>

\* The page side, sendMessageToSW(message): the promise rejects at once when
\* the page has no controller; otherwise the message is posted with port2 of a
\* new MessageChannel and the promise resolves when a message arrives on
\* port1.  Nothing else settles it: there is no timeout.  `posted` is what the
\* worker has posted, `id` the message (and its port).
SendMessageToSW(controlled, posted, id) ==
    IF ~controlled THEN "rejected"
    ELSE IF \E i \in 1..Len(posted) : posted[i].port = id THEN "resolved"
    ELSE "pending"

\* switch (type) of the message listener: the operation a message type
\* starts; a type without a case starts nothing
MessageCase(type) ==
    CASE type = "CACHE_ASSET" -> "cacheAsset"
      [] type = "CLEAR_CACHE" -> "clearCache"
      [] type = "GET_CACHE_STATUS" -> "getCacheStatus"
      [] OTHER -> "none"

\* The page side, skipWaiting(): when the page has a controller, it posts
\* { type: 'SKIP_WAITING' } to that worker, whose listener runs its switch.
\* No case matches: no operation starts and self.skipWaiting() is not called,
\* so the state of the workers is as it was.
SkipWaitingCall ==
    /\ swState = "activated" /\ activate.claimed
    /\ eventsLeft > 0
    /\ eventsLeft' = eventsLeft - 1
    /\ last' = [NoOutcome EXCEPT !.kind = "skipWaitingMessage", !.id = eventsLeft,
                                 !.result = IF MessageCase("SKIP_WAITING") = "none"
                                              THEN "ignored" ELSE "handled"]
    /\ UNCHANGED <<netVer, loader, lastPut, cacheNames, cacheData, pendingPuts, lifecycle, inflight,
                   pristine, cleared, sinceClear>>

\* a cacheAsset without its try/catch
MessageFailureUncaught(kind) == "unhandled"

\* where the rejection ends: cacheAsset wraps its body in try/catch;
\* clearCache and getCacheStatus do not, and the listener attaches no catch
MessageFailure(kind) == IF kind = "cacheAsset" THEN "caught" ELSE "unhandled"

\* cacheAsset: const cache = await caches.open(ASSET_CACHE_NAME)
CacheAssetOpen(h) ==
    /\ h \in inflight /\ h.kind = "cacheAsset" /\ h.pc = "open"
    /\ cacheNames' = CachesOpen(cacheNames, ASSET_CACHE_NAME)
    /\ sinceClear' = (sinceClear /\ cacheNames' = cacheNames)
    /\ Step(h, [h EXCEPT !.pc = "add"])
    /\ UNCHANGED <<netVer, loader, lastPut, cacheData, pendingPuts, lifecycle, eventsLeft, last, pristine,
                   cleared>>

\* cacheAsset: await cache.add(url), inside try/catch
CacheAssetAdd(h, outcome) ==
    /\ h \in inflight /\ h.kind = "cacheAsset" /\ h.pc = "add"
    /\ IF outcome = "ok" /\ ~h.detached
         THEN /\ cacheData' = [cacheData EXCEPT ![ASSET_CACHE_NAME][h.req.url] =
                                  NetResponse(TRUE, netVer)]
              /\ pristine' = FALSE
              /\ sinceClear' = FALSE
         ELSE UNCHANGED <<cacheData, pristine, cleared, sinceClear>>
    /\ Complete(h, [Outcome([h EXCEPT !.net = outcome],
                            IF outcome = "ok" THEN "resolved" ELSE MessageFailure(h.kind),
                            NoResponse, "none", SeqToSet(cacheNames))
                       EXCEPT !.keys = AllKeys(cacheData'),
                              !.wrote = (AllKeys(cacheData') # AllKeys(cacheData))])
    /\ UNCHANGED <<netVer, loader, lastPut, cacheNames, pendingPuts, lifecycle, eventsLeft, cleared>>

(***************************************************************************)
(* The sync listener and retryFailedAssets.                                *)
(***************************************************************************)
SyncTags == {"retry-asset-requests", "other"}

\* if (event.tag === 'retry-asset-requests') event.waitUntil(retryFailedAssets());
\* the browser fires the sync event of a tag again only after the promise of
\* the previous one has settled, so two sweeps never overlap
SyncEvent(tag) ==
    /\ tag = "retry-asset-requests"
    /\ \A g \in inflight : g.kind # "sync"
    /\ Start(NewHandler("sync", NoRequest, "open"))
    /\ UNCHANGED <<netVer, loader, lastPut, cacheNames, cacheData, pendingPuts, lifecycle, last,
                   pristine, cleared, sinceClear>>

\* a sync event of another tag: the listener does nothing
SyncIgnored(tag) ==
    /\ tag # "retry-asset-requests"
    /\ swState = "activated"
    /\ eventsLeft > 0
    /\ eventsLeft' = eventsLeft - 1
    /\ last' = [NoOutcome EXCEPT !.kind = "syncIgnored", !.result = "default"]
    /\ UNCHANGED <<netVer, loader, lastPut, cacheNames, cacheData, pendingPuts, lifecycle, inflight,
                   pristine, cleared, sinceClear>>

\* const cache = await caches.open(ASSET_CACHE_NAME)
SyncOpen(h) ==
    /\ h \in inflight /\ h.kind = "sync" /\ h.pc = "open"
    /\ cacheNames' = CachesOpen(cacheNames, ASSET_CACHE_NAME)
    /\ sinceClear' = (sinceClear /\ cacheNames' = cacheNames)
    /\ Step(h, [h EXCEPT !.pc = "keys"])
    /\ UNCHANGED <<netVer, loader, lastPut, cacheData, pendingPuts, lifecycle, eventsLeft, last, pristine,
                   cleared>>

\* const cachedRequests = await cache.keys() -- the result is never used
SyncKeys(h) ==
    /\ h \in inflight /\ h.kind = "sync" /\ h.pc = "keys"
    /\ Step(h, [h EXCEPT !.pc = "match", !.sweep.i = 1])
    /\ UNCHANGED <<netVer, loader, lastPut, cacheNames, cacheData, pendingPuts, lifecycle, eventsLeft,
                   last, pristine, cleared, sinceClear>>

\* const request = new Request(asset)
SweepRequest(h) == Request("GET", CRITICAL_ASSETS[h.sweep.i])

\* the loop goes to its next entry, or the sweep ends after the last one; g is
\* the handler after the work on the current entry, data the stores after it
SweepAdvance(h, g, data) ==
    IF g.sweep.i = Len(CRITICAL_ASSETS)
      THEN Complete(h, [Outcome(g, "resolved", NoResponse, "none", SeqToSet(cacheNames))
                           EXCEPT !.keys = AllKeys(data)])
      ELSE /\ Step(h, [g EXCEPT !.pc = "match", !.sweep.i = g.sweep.i + 1])
           /\ UNCHANGED last

\* const cached = await cache.match(request); if (!cached) { ... }
SyncMatch(h) ==
    /\ h \in inflight /\ h.kind = "sync" /\ h.pc = "match"
    /\ IF CacheMatch(cacheData, ASSET_CACHE_NAME, SweepRequest(h)) # NoResponse
         THEN SweepAdvance(h, h, cacheData)
         ELSE /\ Step(h, [h EXCEPT !.pc = "fetch"])
              /\ UNCHANGED last
    /\ UNCHANGED <<netVer, loader, lastPut, cacheNames, cacheData, pendingPuts, lifecycle, eventsLeft,
                   pristine, cleared, sinceClear>>

\* a sweep whose fetch is not in a try block of its own: the rejection ends it
AfterAttemptAbort(outcome) == IF outcome = "throw" THEN "end" ELSE "next"

\* the inner try/catch: after a fetch that threw, the loop goes on
AfterAttempt(outcome) == "next"

\* const response = await fetch(request); if (response.ok) ... catch (err) ...
SyncFetch(h, outcome) ==
    /\ h \in inflight /\ h.kind = "sync" /\ h.pc = "fetch"
    /\ LET g == [h EXCEPT !.sweep.attempts[h.sweep.i] = @ + 1,
                          !.sweep.results[h.sweep.i] = outcome] IN
         CASE outcome = "ok" ->
                /\ Step(h, [g EXCEPT !.pc = "put", !.resp = NetResponse(TRUE, netVer)])
                /\ UNCHANGED last
           [] outcome # "ok" /\ AfterAttempt(outcome) = "next" ->
                SweepAdvance(h, g, cacheData)
           [] OTHER ->
                Complete(h, Outcome(g, "resolved", NoResponse, "none",
                                    SeqToSet(cacheNames)))
    /\ UNCHANGED <<netVer, loader, lastPut, cacheNames, cacheData, pendingPuts, lifecycle, eventsLeft,
                   pristine, cleared, sinceClear>>

\* await cache.put(request, response): awaited, the entry is written
SyncPut(h) ==
    /\ h \in inflight /\ h.kind = "sync" /\ h.pc = "put"
    /\ cacheData' = [cacheData EXCEPT ![ASSET_CACHE_NAME][SweepRequest(h).url] = h.resp]
    /\ SweepAdvance(h, [h EXCEPT !.resp = NoResponse], cacheData')
    /\ pristine' = FALSE
    /\ sinceClear' = FALSE
    /\ UNCHANGED <<netVer, loader, lastPut, cacheNames, pendingPuts, lifecycle, eventsLeft, cleared>>

SyncSteps ==
    \/ \E h \in inflight : SyncOpen(h)
    \/ \E h \in inflight : SyncKeys(h)
    \/ \E h \in inflight : SyncMatch(h)
    \/ \E h \in inflight, o \in FetchOutcomes : SyncFetch(h, o)
    \/ \E h \in inflight : SyncPut(h)

(***************************************************************************)
(* Cache storage failing under a message handler: the promise of the       *)
(* caches.keys() or caches.open() it awaits rejects (storage unavailable). *)
(***************************************************************************)
\* clearCache: await caches.keys() rejects
ClearKeysFail(h) ==
    /\ h \in inflight /\ h.kind = "clearCache" /\ h.pc = "keys"
    /\ Complete(h, Outcome(h, MessageFailure(h.kind), NoResponse, "none",
                           SeqToSet(cacheNames)))
    /\ UNCHANGED <<netVer, loader, lastPut, cacheNames, cacheData, pendingPuts, lifecycle, eventsLeft,
                   pristine, cleared, sinceClear>>

\* getCacheStatus: await caches.open(ASSET_CACHE_NAME) rejects; the .then
\* callback that posts the status does not run
StatusOpenFail(h) ==
    /\ h \in inflight /\ h.kind = "getCacheStatus" /\ h.pc = "open"
    /\ Complete(h, Outcome(h, MessageFailure(h.kind), NoResponse, "none",
                           SeqToSet(cacheNames)))
    /\ UNCHANGED <<netVer, loader, lastPut, cacheNames, cacheData, pendingPuts, lifecycle, eventsLeft,
                   pristine, cleared, sinceClear>>

\* cacheAsset: await caches.open(ASSET_CACHE_NAME) rejects inside the try block
CacheAssetOpenFail(h) ==
    /\ h \in inflight /\ h.kind = "cacheAsset" /\ h.pc = "open"
    /\ Complete(h, Outcome(h, MessageFailure(h.kind), NoResponse, "none",
                           SeqToSet(cacheNames)))
    /\ UNCHANGED <<netVer, loader, lastPut, cacheNames, cacheData, pendingPuts, lifecycle, eventsLeft,
                   pristine, cleared, sinceClear>>

StorageFaultSteps ==
    \/ \E h \in inflight : ClearKeysFail(h)
    \/ \E h \in inflight : StatusOpenFail(h)
    \/ \E h \in inflight : CacheAssetOpenFail(h)

(***************************************************************************)
(* The specifications.                                                     *)
(*   Spec      a cold start: install, activate, then MaxEvents events      *)
(*   SpecClear CLEAR_CACHE among requests for one image asset              *)
(***************************************************************************)
LifecycleSteps ==
    \/ InstallOpen
    \/ \E o \in FetchOutcomes : ShellAddAll(o)
    \/ \E i \in CriticalIdx, o \in FetchOutcomes : AssetAdd(i, o)
    \/ InstallResolve
    \/ InstallReject
    \/ ActivateKeys
    \/ ActivateDelete
    \/ ActivateClaim

AssetHandlerSteps ==
    \/ \E h \in inflight : AssetMatch(h)
    \/ \E h \in inflight, o \in FetchOutcomes : AssetFetch(h, o)
    \/ \E h \in inflight : AssetPut(h)
    \/ \E p \in pendingPuts : PutCommit(p)

AppHandlerSteps ==
    \/ \E h \in inflight, o \in FetchOutcomes : AppFetch(h, o)
    \/ \E h \in inflight : AppPut(h)
    \/ \E h \in inflight : AppFallback(h)

ClearSteps ==
    \/ \E h \in inflight : ClearKeys(h)
    \/ \E h \in inflight : ClearDelete(h)

StatusSteps ==
    \/ \E h \in inflight : StatusOpen(h)
    \/ \E h \in inflight : StatusKeys(h)

CacheAssetSteps ==
    \/ \E h \in inflight : CacheAssetOpen(h)
    \/ \E h \in inflight, o \in FetchOutcomes : CacheAssetAdd(h, o)

FunctionalEvents ==
    \/ Publish
    \/ \E r \in FetchRequests : FetchEvent(r)
    \/ \E r \in FetchRequests : FetchPassThrough(r)
    \/ \E t \in MessageTypes, u \in CacheAssetUrls : MessageEvent(t, u)
    \/ AssetHandlerSteps
    \/ AppHandlerSteps
    \/ ClearSteps
    \/ StatusSteps
    \/ CacheAssetSteps

Next == LifecycleSteps \/ FunctionalEvents

Spec == Init /\ [][Next]_vars

\* The worker after an install in which every critical asset was cached
\* (all) or none was, and after its activation: states Spec reaches.
WarmAssetStore(all) ==
    [u \in UrlUniverse |->
        IF all /\ u \in SeqToSet(CRITICAL_ASSETS) THEN NetResponse(TRUE, 1) ELSE NoResponse]

WarmCacheData(all) ==
    [n \in CacheNameUniverse |->
        IF n = CACHE_NAME THEN [EmptyStore EXCEPT ![RootUrl] = NetResponse(TRUE, 1)]
        ELSE IF n = ASSET_CACHE_NAME THEN WarmAssetStore(all)
        ELSE EmptyStore]

WarmWorker(all, budget) ==
    /\ netVer = 1
    /\ cacheNames = <<CACHE_NAME, ASSET_CACHE_NAME>>
    /\ cacheData = WarmCacheData(all)
    /\ pendingPuts = {}
    /\ swState = "activated"
    /\ install = [pc |-> "seeding", shell |-> "ok",
                  assets |-> [i \in CriticalIdx |-> IF all THEN "ok" ELSE "failed"],
                  settled |-> "resolved", skipWaiting |-> TRUE,
                  keys |-> CacheKeys(WarmCacheData(all), ASSET_CACHE_NAME),
                  round |-> 1, first |-> NoFirstInstall]
    /\ activate = [pc |-> "done", snapshot |-> << >>, claimed |-> TRUE,
                   names |-> {CACHE_NAME, ASSET_CACHE_NAME},
                   before |-> StorageView(<< >>, [n \in CacheNameUniverse |-> EmptyStore])]
    /\ inflight = {}
    /\ eventsLeft = budget
    /\ last = NoOutcome
    /\ pristine = TRUE
    /\ cleared = FALSE
    /\ sinceClear = FALSE
    /\ lastPut = NoPut

\* the same with the page just loaded, online
Warm(all, budget) == WarmWorker(all, budget) /\ loader = LoaderStart(TRUE)

InitClear == Warm(TRUE, MaxClearEvents)

NextClear ==
    \/ FetchEvent(Request("GET", ImageUrl))
    \/ MessageEvent("CLEAR_CACHE", RootUrl)
    \/ AssetHandlerSteps
    \/ ClearSteps

SpecClear == InitClear /\ [][NextClear]_vars


\* The install and the activation alone.  The .then callback of a fulfilled
\* promise is a microtask: once both seedings are fulfilled it does run.
SpecInstall == Init /\ [][LifecycleSteps]_vars /\ WF_vars(InstallResolve)

\* The install seeding run twice from empty cache storage
InitReinstall == Init /\ cacheNames = << >>

NextReinstall ==
    \/ InstallOpen
    \/ \E o \in DeterministicOutcomes(RootUrl) : ShellAddAll(o)
    \/ \E i \in CriticalIdx :
          \E o \in DeterministicOutcomes(CRITICAL_ASSETS[i]) : AssetAdd(i, o)
    \/ InstallResolve
    \/ InstallReject
    \/ Reinstall

SpecReinstall == InitReinstall /\ [][NextReinstall]_vars

\* Sync events on a worker whose install cached every critical asset or none,
\* among requests for the image asset
InitSync == \E all \in BOOLEAN : Warm(all, MaxSyncEvents)

NextSync ==
    \/ \E t \in SyncTags : SyncEvent(t)
    \/ \E t \in SyncTags : SyncIgnored(t)
    \/ FetchEvent(Request("GET", ImageUrl))
    \/ SyncSteps
    \/ AssetHandlerSteps

SpecSync == InitSync /\ [][NextSync]_vars

\* Requests for the image asset and CACHE_ASSET messages on a worker whose
\* install cached no asset, the site being redeployed meanwhile
InitAssets == Warm(FALSE, MaxAssetEvents)

NextAssets ==
    \/ Publish
    \/ FetchEvent(Request("GET", ImageUrl))
    \/ \E u \in CacheAssetUrls : MessageEvent("CACHE_ASSET", u)
    \/ AssetHandlerSteps
    \/ CacheAssetSteps

SpecAssets == InitAssets /\ [][NextAssets]_vars

\* Requests of the controlled pages to another origin
InitCrossOrigin == Warm(TRUE, MaxCrossOriginEvents)

NextCrossOrigin ==
    \/ \E r \in CrossOriginRequests : FetchEvent(r)
    \/ AssetHandlerSteps
    \/ AppHandlerSteps

SpecCrossOrigin == InitCrossOrigin /\ [][NextCrossOrigin]_vars

\* The control messages on an installed worker, cache storage failing or not
InitMessages == Warm(TRUE, MaxMessageEvents)

NextMessages ==
    \/ \E t \in MessageTypes, u \in CacheAssetUrls : MessageEvent(t, u)
    \/ SkipWaitingCall
    \/ ClearSteps
    \/ StatusSteps
    \/ CacheAssetSteps
    \/ StorageFaultSteps

SpecMessages == InitMessages /\ [][NextMessages]_vars

\* Fetch, sync and message events together on an installed worker: requests
\* for an image, for the script chunk and for a document, retry sweeps and the
\* three control messages
InitStores == \E all \in BOOLEAN : Warm(all, MaxStoreEvents)

StoreRequests ==
    {Request("GET", ImageUrl), Request("GET", ChunkUrl), Request("GET", AboutDirUrl)}

NextStores ==
    \/ \E r \in StoreRequests : FetchEvent(r)
    \/ \E t \in MessageTypes, u \in CacheAssetUrls : MessageEvent(t, u)
    \/ \E t \in SyncTags : SyncEvent(t)
    \/ AssetHandlerSteps
    \/ AppHandlerSteps
    \/ ClearSteps
    \/ StatusSteps
    \/ CacheAssetSteps
    \/ SyncSteps

SpecStores == InitStores /\ [][NextStores]_vars

\* GET_CACHE_STATUS on a worker whose install cached every critical asset,
\* next to requests for the script chunk and CACHE_ASSET messages
InitStatus == Warm(TRUE, MaxStatusEvents)

NextStatus ==
    \/ FetchEvent(Request("GET", ChunkUrl))
    \/ \E u \in CacheAssetUrls : MessageEvent("CACHE_ASSET", u)
    \/ MessageEvent("GET_CACHE_STATUS", RootUrl)
    \/ AssetHandlerSteps
    \/ CacheAssetSteps
    \/ StatusSteps

SpecStatus == InitStatus /\ [][NextStatus]_vars

\* Requests for the root document, CLEAR_CACHE and CACHE_ASSET messages on
\* an installed worker, the site being redeployed meanwhile
InitOffline == Warm(TRUE, MaxOfflineEvents)

NextOffline ==
    \/ Publish
    \/ FetchEvent(Request("GET", RootUrl))
    \/ MessageEvent("CLEAR_CACHE", RootUrl)
    \/ MessageEvent("CACHE_ASSET", RootUrl)
    \/ AppHandlerSteps
    \/ \E p \in pendingPuts : PutCommit(p)
    \/ ClearSteps
    \/ CacheAssetSteps

SpecOffline == InitOffline /\ [][NextOffline]_vars

\* The asset loader of a page, loaded online or offline, under any sequence
\* of online and offline events, loads and retries
InitLoader == WarmWorker(TRUE, 0) /\ \E onLine \in BOOLEAN : loader = LoaderStart(onLine)

NextLoader ==
    \/ LoaderOnline
    \/ LoaderOffline
    \/ \E c \in AssetConfigs : PreloadAsset(c)
    \/ \E c \in AssetConfigs, ok \in BOOLEAN : PreloadPrimary(c, ok)
    \/ \E c \in AssetConfigs, ok \in BOOLEAN : PreloadBundled(c, ok)
    \/ RetryLoading

SpecLoader == InitLoader /\ [][NextLoader]_vars

(***************************************************************************)
(* Properties.                                                             *)
(***************************************************************************)
FailedEntries == {i \in CriticalIdx : install.assets[i] = "failed"}
CachedEntries == {i \in CriticalIdx : install.assets[i] = "ok"}

InstallOver == install.settled # "pending" /\ AssetSeedingSettled(install.assets)

OthersCached(i) ==
    \A j \in CriticalIdx \ {i} : CRITICAL_ASSETS[j] \in install.keys

C2_VersionGarbageCollection ==
    /\ activate.pc = "done" => activate.names = {CACHE_NAME, ASSET_CACHE_NAME}
    /\ activate.pc = "deleted" => SeqToSet(cacheNames) = {CACHE_NAME, ASSET_CACHE_NAME}

C2_Witness ==
    /\ activate.pc = "deleted"
    /\ OldCacheNames \subseteq SeqToSet(activate.snapshot)
    /\ SeqToSet(cacheNames) = {CACHE_NAME, ASSET_CACHE_NAME}

\* C3: an /assets/ request handled while the asset store holds an entry for
\* it is answered with that entry, and no network fetch is issued.
C3_CacheFirstHit ==
    (last.kind = "asset" /\ last.atMatch # NoResponse)
    => /\ last.result = "response"
       /\ last.src = "cache"
       /\ last.resp = last.atMatch
       /\ last.net = "none"

C3_Witness ==
    /\ last.kind = "asset"
    /\ last.atMatch = NetResponse(TRUE, 1)
    /\ last.resp = NetResponse(TRUE, 1)
    /\ netVer = 2

\* C4: a GET document request whose network fetch succeeds is answered with
\* the response of that fetch, also when a store holds another response for
\* the same request.
C4_NetworkFirstFresh ==
    (last.kind = "app" /\ last.net \in {"ok", "notok"})
    => /\ last.result = "response"
       /\ last.src = "network"
       /\ last.resp = last.served
       /\ last.served.kind = "network"

C4_Witness ==
    /\ last.kind = "app"
    /\ last.net = "ok"
    /\ last.atMatch = NetResponse(TRUE, 1)
    /\ last.resp = NetResponse(TRUE, 2)

\* the request is for the root document of the site: / or /index.html
IsRootDocument(u) ==
    /\ u.origin = "self"
    /\ u.dir = << >>
    /\ \/ (u.stem = "" /\ u.ext = "")
       \/ (u.stem = "index" /\ u.ext = "html")

\* C5, as claimed: when the network fetch of a document request fails, the
\* cached response is returned if a store holds one; if none does and the
\* request is for the root document, the offline page is returned.
C5_DocumentFallback ==
    (last.kind = "app" /\ last.net = "throw")
    => /\ last.atMatch # NoResponse
            => (last.result = "response" /\ last.resp = last.atMatch)
       /\ (last.atMatch = NoResponse /\ IsRootDocument(last.req.url))
            => (last.result = "response" /\ last.resp = OfflinePage)

\* C6, as claimed: a document request that is not for the root document, whose
\* network fetch fails and which no store holds, ends in the error.
C6_DocumentFailurePropagates ==
    ( /\ last.kind = "app" /\ last.net = "throw"
      /\ last.atMatch = NoResponse
      /\ ~IsRootDocument(last.req.url) )
    => last.result = "throw"

\* the extensions the claim lists, at the end of the URL
HasImageExtension(u) ==
    u.query = "" /\ u.ext \in {"jpg", "jpeg", "png", "gif", "webp"}

\* C7: an /assets/ request that misses the stores and whose fetch throws is
\* answered with the 'Image Unavailable' placeholder when its URL has an image
\* extension, and ends in the error otherwise.
C7_AssetFailure ==
    (last.kind = "asset" /\ last.net = "throw")
    => IF HasImageExtension(last.req.url)
         THEN last.result = "response" /\ last.resp = ImagePlaceholder
         ELSE last.result = "throw"

C7_Witness ==
    /\ last.kind = "asset" /\ last.net = "throw"
    /\ last.req.url = ImageUrl
    /\ last.resp = ImagePlaceholder

C9_StatusAccuracy ==
    (last.kind = "getCacheStatus" /\ last.fresh)
    => /\ last.cached = Cardinality(CachedEntries)
       /\ last.total = Len(CRITICAL_ASSETS)

C9_Witness ==
    /\ last.kind = "getCacheStatus" /\ last.fresh
    /\ last.cached = 2
    /\ Cardinality(FailedEntries) = 2

\* C10, as claimed: respondWith is never called for a request whose method
\* is not GET.
C10_NonGetNotIntercepted ==
    \A h \in inflight : h.kind \in {"asset", "app"} => h.req.method = "GET"

\* C11, as claimed: respondWith is never called for a request to another
\* origin, and no response to such a request is written to the shell store or
\* to the asset store.
C11_CrossOriginNotIntercepted ==
    /\ \A h \in inflight : h.kind \in {"asset", "app"} => h.req.url.origin = "self"
    /\ \A n \in {CACHE_NAME, ASSET_CACHE_NAME} :
          \A u \in CacheKeys(cacheData, n) : u.origin = "self"


MessageKinds == {"cacheAsset", "clearCache", "getCacheStatus"}

\* C12, as claimed: whichever of the three control messages is handled, a
\* failure of the cache-storage or network operation it performs is caught
\* inside the handler: no message handling ends in an uncaught rejection.
C12_MessageFailureContained ==
    last.kind \in MessageKinds => last.result # "unhandled"

C16_StatusReadOnly ==
    (last.kind = "getCacheStatus" /\ last.quiet /\ last.result = "reply")
    => /\ last.names = last.before.names
       /\ last.keys = last.before.keys


BothSeedingsComplete ==
    install.shell = "ok" /\ AssetSeedingSettled(install.assets)

\* C14: during install, skipWaiting is signalled only after the shell seeding
\* and the asset seeding have both completed, and it is signalled in every
\* install in which both complete, whichever critical assets failed.
C14_SkipWaitingOrdering ==
    /\ [](install.skipWaiting => BothSeedingsComplete)
    /\ (BothSeedingsComplete ~> install.skipWaiting)

C14_Witness ==
    /\ install.skipWaiting
    /\ BothSeedingsComplete
    /\ FailedEntries = CriticalIdx


C17_RetrySweep ==
    last.kind = "sync" =>
      \A i \in CriticalIdx :
        /\ last.sweep.attempts[i] <= 1
        /\ CRITICAL_ASSETS[i] \in last.before.keys[ASSET_CACHE_NAME]
              => last.sweep.attempts[i] = 0
        /\ last.sweep.results[i] = "ok"
              => CRITICAL_ASSETS[i] \in last.keys[ASSET_CACHE_NAME]
        /\ CRITICAL_ASSETS[i] \notin last.keys[ASSET_CACHE_NAME]
              => (last.sweep.attempts[i] = 1
                    /\ last.sweep.results[i] \in {"notok", "throw"})

C17_Witness ==
    /\ last.kind = "sync"
    /\ last.sweep.results[1] = "throw"
    /\ last.sweep.results[2] = "notok"
    /\ last.sweep.results[4] = "ok"
    /\ last.sweep.attempts[3] = 0
    /\ last.keys[ASSET_CACHE_NAME] = {ImageUrl, PdfUrl}


\* C18: CACHE_ASSET {url} adds url to the asset store when its fetch succeeds
\* with an ok status; when the fetch fails or is not ok the error is caught,
\* the keys of the stores are unchanged, and in no case is anything thrown or
\* posted back.
C18_CacheAssetFireAndForget ==
    last.kind = "cacheAsset" =>
      /\ last.net = "ok"
            => (last.result = "resolved"
                  /\ last.req.url \in last.keys[ASSET_CACHE_NAME])
      /\ last.net \in {"notok", "throw"}
            => (last.result = "caught" /\ ~last.wrote)
      /\ last.result # "unhandled"
      /\ last.posted = << >>

C18_Witness ==
    /\ last.kind = "cacheAsset"
    /\ last.net = "notok"
    /\ last.result = "caught"
    /\ last.req.url = PdfUrl
    /\ PdfUrl \notin CacheKeys(cacheData, ASSET_CACHE_NAME)

AllSettled == inflight = {} /\ pendingPuts = {}

\* C19: two handlers running concurrently for the same uncached /assets/ URL
\* each issue a fetch of their own and each return the response they fetched;
\* when both have finished and their writes are done, the asset store holds
\* for that key the response written last.
C19_DuplicateRequests ==
    /\ (last.kind = "asset" /\ last.net = "ok")
          => (last.result = "response" /\ last.resp = last.served
                /\ last.served.kind = "network")
    /\ (AllSettled /\ lastPut # NoPut)
          => cacheData[lastPut.cache][lastPut.url] = lastPut.resp

C19_Witness ==
    /\ AllSettled
    /\ last.kind = "asset" /\ ~last.quiet /\ last.net = "ok"
    /\ last.req.url = ImageUrl
    /\ last.resp = NetResponse(TRUE, 2)
    /\ lastPut.resp = NetResponse(TRUE, 1)
    /\ cacheData[ASSET_CACHE_NAME][ImageUrl] = NetResponse(TRUE, 1)

AssetMiss == last.kind = "asset" /\ last.req.method = "GET" /\ last.atMatch = NoResponse

\* C20, as claimed: on an asset-store miss answered by the network with an ok
\* response, the clone is in the asset store before the response is returned,
\* and the caller gets the network response; a response that is not ok is
\* returned as it is and no store is written.
C20_StoredBeforeReturn ==
    /\ (AssetMiss /\ last.net = "ok")
          => (last.stored /\ last.result = "response" /\ last.resp = last.served)
    /\ (AssetMiss /\ last.net = "notok")
          => (last.result = "response" /\ last.resp = last.served /\ ~last.wrote)

\* C20, amended: on such a miss the write of the clone is issued, not
\* awaited, before the response is returned: when the caller gets the network
\* response the entry is in the store or its put is under way; a response that
\* is not ok is returned as it is and no store is written.
C20_PutIssuedBeforeReturn ==
    /\ (AssetMiss /\ last.net = "ok")
          => (last.issued /\ last.result = "response" /\ last.resp = last.served)
    /\ (AssetMiss /\ last.net = "notok")
          => (last.result = "response" /\ last.resp = last.served /\ ~last.wrote)

C20_Witness ==
    /\ AssetMiss /\ last.net = "ok"
    /\ last.issued /\ ~last.stored
    /\ last.resp = NetResponse(TRUE, 1)
    /\ cacheData[ASSET_CACHE_NAME][last.req.url] = NoResponse
    /\ pendingPuts # {}

(***************************************************************************)
(* C21  Activation: ordering and frame.                                    *)
(***************************************************************************)
\* what the activate handler has done when its deletions are over: every
\* store it listed under a name other than the two current ones is gone, and
\* the two current stores are there with the keys they had when it began
DeletionsComplete ==
    /\ \A n \in activate.before.names :
          ActivateDeletes(n) => ~CacheExists(cacheNames, n)
    /\ \A n \in {CACHE_NAME, ASSET_CACHE_NAME} :
          /\ CacheKeys(cacheData, n) = activate.before.keys[n]
          /\ (n \in activate.before.names) = CacheExists(cacheNames, n)

\* C21: the clients are claimed only in a step taken when every deletion of
\* a non-current store has completed, the current shell and asset stores
\* having then the keys they had when the handler began, and that step leaves
\* cache storage as it is.
C21_ActivationOrderAndFrame ==
    /\ [](activate.pc = "deleted" => (DeletionsComplete /\ ~activate.claimed))
    /\ [][(~activate.claimed /\ activate'.claimed)
            => /\ activate.pc = "deleted" /\ DeletionsComplete
               /\ cacheNames' = cacheNames /\ cacheData' = cacheData]_vars

\* both stores of an earlier version, which the handler found next to a
\* partly seeded asset store, have been deleted, and the claim of the clients
\* is the step the handler takes next
C21_Witness ==
    /\ activate.pc = "deleted" /\ ENABLED ActivateClaim
    /\ OldCacheNames \subseteq activate.before.names
    /\ SeqToSet(cacheNames) = {CACHE_NAME, ASSET_CACHE_NAME}
    /\ CacheKeys(cacheData, ASSET_CACHE_NAME) \notin {{}, SeqToSet(CRITICAL_ASSETS)}
    /\ CacheKeys(cacheData, CACHE_NAME) # {}

(***************************************************************************)
(* C22  The shell seeding is fail-fast.                                    *)
(***************************************************************************)
\* C22: once the fetch of '/' for the shell store has failed during the
\* install, the promise given to waitUntil is rejected or about to be (its
\* rejection is the one step left for it), it is never resolved, skipWaiting
\* is not signalled and the worker does not go on to activate, whatever the
\* asset seeding has written.
C22_ShellSeedingFailFast ==
    install.shell = "failed" =>
      /\ ~install.skipWaiting
      /\ \/ install.settled = "rejected" /\ swState = "redundant"
         \/ install.settled = "pending" /\ swState = "installing"
                                       /\ ENABLED InstallReject
      /\ ~activate.claimed

\* the install has been rejected for '/' after the asset seeding had already
\* written an entry, and more entries were written afterwards
C22_Witness ==
    /\ install.shell = "failed"
    /\ install.settled = "rejected"
    /\ ~install.skipWaiting
    /\ install.keys = {ImageUrl}
    /\ CacheKeys(cacheData, ASSET_CACHE_NAME) = {ImageUrl, PdfUrl, IndexUrl}

(***************************************************************************)
(* C23  Synthetic responses are never cached.                              *)
(***************************************************************************)
\* C23: in every state, no store holds the image placeholder or the offline
\* page under any key, and no put of one is on its way: every stored value is
\* a response of the network.
C23_SyntheticNeverCached ==
    /\ \A n \in CacheNameUniverse, u \in UrlUniverse :
          /\ cacheData[n][u] \notin {ImagePlaceholder, OfflinePage}
          /\ cacheData[n][u] # NoResponse => cacheData[n][u].kind = "network"
    /\ \A p \in pendingPuts : p.resp.kind = "network"

\* a synthetic response has just been served, for a request whose URL is not
\* a key of any store, while the stores hold network responses
C23_Witness ==
    /\ last.resp \in {ImagePlaceholder, OfflinePage}
    /\ \A n \in CacheNameUniverse : last.req.url \notin CacheKeys(cacheData, n)
    /\ \E n \in CacheNameUniverse : CacheKeys(cacheData, n) # {}
    /\ inflight = {} /\ pendingPuts = {}

(***************************************************************************)
(* C24  The two stores partition the keys by route.                        *)
(***************************************************************************)
\* the store the fetch handling of a URL writes to
RouteStore(u) == IF PathStartsWithAssets(u) THEN ASSET_CACHE_NAME ELSE CACHE_NAME

\* C24: in every state, no key of the shell store has a path beginning with
\* /assets/, and every put a fetch handler has issued, pending or committed,
\* goes to the asset store for an /assets/ URL and to the shell store for any
\* other URL.
C24_StorePartition ==
    /\ \A u \in CacheKeys(cacheData, CACHE_NAME) : ~PathStartsWithAssets(u)
    /\ \A p \in pendingPuts : p.cache = RouteStore(p.url)
    /\ lastPut # NoPut => lastPut.cache = RouteStore(lastPut.url)

\* the response to a request for the script chunk has been written to the
\* asset store, the shell store still holding the root document only
C24_Witness ==
    /\ lastPut.url = ChunkUrl /\ lastPut.cache = ASSET_CACHE_NAME
    /\ ChunkUrl \in CacheKeys(cacheData, ASSET_CACHE_NAME)
    /\ CacheKeys(cacheData, CACHE_NAME) = {RootUrl}
    /\ last.kind = "asset" /\ last.req = Request("GET", ChunkUrl)

(***************************************************************************)
(* C25  The bound of the status report.                                    *)
(***************************************************************************)
\* C25, as claimed: in every CACHE_STATUS reply, cachedAssets is at most
\* totalAssets.
C25_StatusBound ==
    last.kind = "getCacheStatus" => last.cached <= last.total

(***************************************************************************)
(* C26  CLEAR_CACHE under interleaving.                                    *)
(***************************************************************************)
\* C26, as claimed: from the completion of a CLEAR_CACHE handling until the
\* next request starts, cache storage has no store and no entry, whatever
\* handlers were in flight when the handling ran.
C26_ClearStaysEmpty ==
    cleared => /\ SeqToSet(cacheNames) = {}
               /\ \A n \in CacheNameUniverse : CacheKeys(cacheData, n) = {}

(***************************************************************************)
(* C27  The freshest document offline.                                     *)
(***************************************************************************)
\* C27, as claimed: when the network fetch of a document request fails and
\* the shell store holds the response the latest successful network-first
\* fetch of that request stored, that response is the one returned.
C27_FreshestOfflineDocument ==
    (last.kind = "app" /\ last.net = "throw" /\ last.freshest # NoResponse)
      => (last.result = "response" /\ last.resp = last.freshest)

(***************************************************************************)
(* C28  The control calls of the page complete.                            *)
(***************************************************************************)
\* C28, as claimed: when the worker has finished handling a control message
\* of a page it controls, the promise sendMessageToSW returned for that
\* message is settled (the worker posts on a message's port only while it
\* handles the message, so a promise still pending then is never settled).
C28_ControlCallsSettle ==
    (last.kind \in MessageKinds /\ activate.claimed)
      => SendMessageToSW(activate.claimed, last.posted, last.id) # "pending"

(***************************************************************************)
(* C29  skipWaiting() of the page.                                         *)
(***************************************************************************)
\* C29, as claimed: the SKIP_WAITING message the page posts is handled by the
\* worker that receives it.
C29_SkipWaitingHandled ==
    last.kind = "skipWaitingMessage" => last.result = "handled"

(***************************************************************************)
(* C30  AssetLoader back online.                                           *)
(***************************************************************************)
\* C30, as claimed: from an 'online' event until the next 'offline' event,
\* as long as no load has failed since the 'online' event, getAssetUrl returns
\* the public URL for every asset configuration, whatever loads failed
\* before the event.
C30_BackOnlinePublic ==
    (loader.backOnline /\ ~loader.failedSince)
      => \A c \in AssetConfigs : GetAssetUrl(loader, c) = Public(c)

=============================================================================
